---- MODULE Spec2Model ----
(***************************************************************************)
(* Model of openscad_server.py: the seven MCP tools (list_files,           *)
(* read_file, write_file, append_to_file, get_scad_syntax,                 *)
(* get_scad_reference, scad_quick_help) acting on the working directory.   *)
(*                                                                         *)
(* Strings that the code inspects (filenames, contents, flags, keys) are   *)
(* sequences of one-character strings.  A response text is the sequence of *)
(* the fragments the f-string concatenates: literal fragments are single   *)
(* tokens, interpolated values contribute their characters.  Emoji are     *)
(* written by their Unicode names (CROSS_MARK, WARNING, CHECK_MARK, ...).  *)
(***************************************************************************)
EXTENDS Integers, Sequences, FiniteSets, TLC

VARIABLES fs, before, call, response

vars == <<fs, before, call, response>>

\* longest file content the model lets append_to_file build
MaxLen == 3

(***************************************************************************)
(* Python str methods                                                      *)
(***************************************************************************)
LowerLetters == <<"a","b","c","d","e","f","g","h","i","j","k","l","m",
                  "n","o","p","q","r","s","t","u","v","w","x","y","z">>
UpperLetters == <<"A","B","C","D","E","F","G","H","I","J","K","L","M",
                  "N","O","P","Q","R","S","T","U","V","W","X","Y","Z">>
Whitespace == {" ", "\t", "\n"}

ToLower == [c \in { UpperLetters[i] : i \in 1..26 } |->
              LowerLetters[CHOOSE i \in 1..26 : UpperLetters[i] = c]]

ToUpper == [c \in { LowerLetters[i] : i \in 1..26 } |->
              UpperLetters[CHOOSE i \in 1..26 : LowerLetters[i] = c]]

lower_char(c) == IF c \in DOMAIN ToLower THEN ToLower[c] ELSE c

upper_char(c) == IF c \in DOMAIN ToUpper THEN ToUpper[c] ELSE c

str_lower(s) == [i \in 1..Len(s) |-> lower_char(s[i])]

str_upper(s) == [i \in 1..Len(s) |-> upper_char(s[i])]

RECURSIVE str_lstrip(_)
str_lstrip(s) ==
  IF s # <<>> /\ Head(s) \in Whitespace THEN str_lstrip(Tail(s)) ELSE s

RECURSIVE str_rstrip(_)
str_rstrip(s) ==
  IF s # <<>> /\ s[Len(s)] \in Whitespace
    THEN str_rstrip(SubSeq(s, 1, Len(s) - 1))
    ELSE s

str_strip(s) == str_rstrip(str_lstrip(s))

\* str.capitalize(): first character upper-cased, the rest lower-cased
str_capitalize(s) ==
  IF s = <<>> THEN s ELSE <<upper_char(Head(s))>> \o str_lower(Tail(s))

str_endswith(s, suffix) ==
  /\ Len(s) >= Len(suffix)
  /\ SubSeq(s, Len(s) - Len(suffix) + 1, Len(s)) = suffix

Digits == <<"0","1","2","3","4","5","6","7","8","9">>

\* str(n) for n >= 0, as the f-string formats len(content)
RECURSIVE int_str(_)
int_str(n) ==
  IF n < 10 THEN <<Digits[n + 1]>>
  ELSE int_str(n \div 10) \o <<Digits[(n % 10) + 1]>>

\* sep.join(items) for a sequence of strings
RECURSIVE str_join(_, _)
str_join(sep, items) ==
  IF items = <<>> THEN <<>>
  ELSE IF Len(items) = 1 THEN items[1]
  ELSE items[1] \o <<sep>> \o str_join(sep, Tail(items))

DotScad == <<".","s","c","a","d">>

(***************************************************************************)
(* The working directory.  A filesystem is a function from the paths of    *)
(* the regular files that exist to their contents; Dirs are the            *)
(* directories of the working directory (no tool creates or removes one).  *)
(* Opening a directory raises IsADirectoryError, the "other I/O failure"   *)
(* of the tools; opening a path whose parent directory is missing raises   *)
(* FileNotFoundError in every mode.                                        *)
(***************************************************************************)
Dirs == { <<"s","u","b">> }

HasSlash(p) == \E i \in 1..Len(p) : p[i] = "/"

LastSlash(p) == CHOOSE i \in 1..Len(p) :
                  p[i] = "/" /\ \A j \in (i+1)..Len(p) : p[j] # "/"

ParentExists(p) == HasSlash(p) => SubSeq(p, 1, LastSlash(p) - 1) \in Dirs

\* os.path.exists
path_exists(fsys, p) == p \in DOMAIN fsys \/ p \in Dirs

\* open(p, 'r') + f.read(): the error raised ("" when none) and the data
open_read(fsys, p) ==
  IF p \in Dirs THEN [err |-> "IsADirectoryError", data |-> <<>>]
  ELSE IF p \in DOMAIN fsys THEN [err |-> "", data |-> fsys[p]]
  ELSE [err |-> "FileNotFoundError", data |-> <<>>]

\* mutant of open_write: the file is opened without truncation ('a' for 'w')
open_write_keep(fsys, p, data) ==
  IF p \in Dirs THEN [err |-> "IsADirectoryError", fs |-> fsys]
  ELSE IF ~ParentExists(p) THEN [err |-> "FileNotFoundError", fs |-> fsys]
  ELSE [err |-> "",
        fs |-> (p :> ((IF p \in DOMAIN fsys THEN fsys[p] ELSE <<>>) \o data))
               @@ fsys]

\* open(p, 'w') + f.write(data): creates or truncates, then writes
open_write(fsys, p, data) ==
  IF p \in Dirs THEN [err |-> "IsADirectoryError", fs |-> fsys]
  ELSE IF ~ParentExists(p) THEN [err |-> "FileNotFoundError", fs |-> fsys]
  ELSE [err |-> "", fs |-> (p :> data) @@ fsys]

\* open(p, 'a') + f.write(data): creates the file when missing, then appends
open_append(fsys, p, data) ==
  IF p \in Dirs THEN [err |-> "IsADirectoryError", fs |-> fsys]
  ELSE IF ~ParentExists(p) THEN [err |-> "FileNotFoundError", fs |-> fsys]
  ELSE [err |-> "",
        fs |-> (p :> ((IF p \in DOMAIN fsys THEN fsys[p] ELSE <<>>) \o data))
               @@ fsys]

\* str(e) of the OSError raised for path p
os_error_text(err, p) ==
  (IF err = "IsADirectoryError"
     THEN <<"[Errno 21] Is a directory: '">>
     ELSE <<"[Errno 2] No such file or directory: '">>) \o p \o <<"'">>

Result(fsys, outcome, text) ==
  [fs |-> fsys, resp |-> [outcome |-> outcome, text |-> text]]

(***************************************************************************)
(* File tools.  Each returns the filesystem it leaves and its response:    *)
(* the branch that returned (outcome) and the text.                        *)
(***************************************************************************)
\* mutant of is_blank: the trim is forgotten
is_blank_no_strip(s) == s = <<>>

\* `not s.strip()`
is_blank(s) == str_strip(s) = <<>>

\* mutant of should_overwrite: the flag is taken as always set
should_overwrite_always(overwrite) == TRUE

\* overwrite.strip().lower() == 'true'
should_overwrite(overwrite) ==
  str_lower(str_strip(overwrite)) = <<"t","r","u","e">>

\* " (triangular ruler) OpenSCAD" if filename.endswith('.scad') else ""
file_type(filename) ==
  IF str_endswith(filename, DotScad)
    THEN <<" ", "TRIANGULAR_RULER", " OpenSCAD">>
    ELSE <<>>

\* mutant of not_found_text: the message carries the warning marker
not_found_text_warning(filename) ==
  <<"WARNING", " Error: File '">> \o filename \o <<"' not found.">>

\* f"(cross mark) Error: File '{filename}' not found."
not_found_text(filename) ==
  <<"CROSS_MARK", " Error: File '">> \o filename \o <<"' not found.">>

\* mutant of read_file: the file is opened 'w+' (truncating) instead of 'r'
read_file_truncating(fsys, filename) ==
  IF is_blank(filename)
    THEN Result(fsys, "validation",
                <<"CROSS_MARK", " Error: Filename is required.">>)
  ELSE
    LET w == open_write(fsys, filename, <<>>)
    IN  IF w.err = ""
          THEN Result(w.fs, "success",
                 <<"PAGE_FACING_UP", " File: ">> \o filename \o <<" (">>
                   \o int_str(0) \o <<" characters)">>
                   \o file_type(filename) \o <<"\n---\n", "\n---">>)
          ELSE Result(fsys, "io_error",
                 <<"CROSS_MARK", " Error: Could not read file. ">>
                   \o os_error_text(w.err, filename))

read_file(fsys, filename) ==
  IF is_blank(filename)
    THEN Result(fsys, "validation",
                <<"CROSS_MARK", " Error: Filename is required.">>)
  ELSE
    LET r == open_read(fsys, filename)
    IN  IF r.err = ""
          THEN LET file_info ==
                     <<"PAGE_FACING_UP", " File: ">> \o filename \o <<" (">>
                       \o int_str(Len(r.data)) \o <<" characters)">>
                       \o (IF str_endswith(filename, DotScad)
                             THEN <<" ", "TRIANGULAR_RULER", " OpenSCAD">>
                             ELSE <<>>)
               IN  Result(fsys, "success",
                          file_info \o <<"\n---\n">> \o r.data \o <<"\n---">>)
        ELSE IF r.err = "FileNotFoundError"
          THEN Result(fsys, "not_found", not_found_text(filename))
        ELSE Result(fsys, "io_error",
                 <<"CROSS_MARK", " Error: Could not read file. ">>
                   \o os_error_text(r.err, filename))

write_file(fsys, filename, content, overwrite) ==
  IF is_blank(filename)
    THEN Result(fsys, "validation",
                <<"CROSS_MARK", " Error: Filename is required.">>)
  ELSE IF path_exists(fsys, filename) /\ ~should_overwrite(overwrite)
    THEN Result(fsys, "warning",
           <<"WARNING", " Error: File '">> \o filename
             \o <<"' already exists. To overwrite, set overwrite to 'true'.">>)
  ELSE
    LET w == open_write(fsys, filename, content)
        action == IF should_overwrite(overwrite)
                    THEN "overwritten" ELSE "created"
    IN  IF w.err = ""
          THEN Result(w.fs, "success",
                 <<"CHECK_MARK", " Success: File '">> \o filename \o <<"'">>
                   \o file_type(filename) \o <<" was ", action, ".">>)
          ELSE Result(w.fs, "io_error",
                 <<"CROSS_MARK", " Error: Could not write to file. ">>
                   \o os_error_text(w.err, filename))

append_to_file(fsys, filename, content) ==
  IF is_blank(filename) \/ is_blank(content)
    THEN Result(fsys, "validation",
           <<"CROSS_MARK", " Error: Both filename and content are required.">>)
  ELSE
    LET a == open_append(fsys, filename, <<"\n">> \o content)
    IN  IF a.err = ""
          THEN Result(a.fs, "success",
                 <<"CHECK_MARK", " Success: Content appended to '">>
                   \o filename \o <<"'">> \o file_type(filename) \o <<".">>)
        ELSE IF a.err = "FileNotFoundError"
          THEN Result(a.fs, "not_found", not_found_text(filename))
        ELSE Result(a.fs, "io_error",
                 <<"CROSS_MARK", " Error: Could not append to file. ">>
                   \o os_error_text(a.err, filename))

(***************************************************************************)
(* list_files.  glob.glob returns the matching names of the working        *)
(* directory in an order the operating system chooses: glob is the set of  *)
(* the orders it may return.  glob.glob swallows the errors of the         *)
(* directory scan, so the except branch of list_files (lines 184-186) has  *)
(* no input that reaches it and no outcome here.                           *)
(***************************************************************************)
\* f"*.{file_extension}" if file_extension.strip() else "*", as the suffix
\* a name must end with
glob_suffix(file_extension) ==
  IF ~is_blank(file_extension) THEN <<".">> \o file_extension ELSE <<>>

\* the names glob's pattern matches: entries of the working directory itself,
\* not hidden, ending with the suffix
glob_names(fsys, suffix) ==
  { p \in DOMAIN fsys \cup Dirs :
      /\ ~HasSlash(p)
      /\ p # <<>> /\ Head(p) # "."
      /\ str_endswith(p, suffix) }

Orderings(S) ==
  { o \in [1..Cardinality(S) -> S] : \A i, j \in DOMAIN o : o[i] = o[j] => i = j }

glob(fsys, suffix) == Orderings(glob_names(fsys, suffix))


list_files(fsys, file_extension, files) ==
  IF files = <<>>
    THEN Result(fsys, "empty_listing",
           <<"OPEN_FILE_FOLDER", " No files found with pattern '", "*">>
             \o glob_suffix(file_extension) \o <<"'.">>)
  ELSE
    LET is_scad(f) == str_endswith(f, DotScad)
        not_scad(f) == ~str_endswith(f, DotScad)
        scad_files == SelectSeq(files, is_scad)
        other_files == SelectSeq(files, not_scad)
    IN  Result(fsys, "listing",
          <<"OPEN_FILE_FOLDER", " Files in directory:">>
            \o (IF scad_files # <<>>
                  THEN <<"\n\n", "TRIANGULAR_RULER", " OpenSCAD Files:\n- ">>
                         \o str_join("\n- ", scad_files)
                  ELSE <<>>)
            \o (IF other_files # <<>>
                  THEN <<"\n\n", "PAGE_FACING_UP", " Other Files:\n- ">>
                         \o str_join("\n- ", other_files)
                  ELSE <<>>))

(***************************************************************************)
(* Knowledge base.  The reference texts are opaque: each is its leading    *)
(* newline, its first emoji and the rest as one token.                     *)
(***************************************************************************)
SCAD_SYNTAX_RULES == <<"\n", "MEMO", " OpenSCAD Language: Foundational Syntax and Rules ...">>

SCAD_PRIMITIVES == <<"\n", "HAMMER_AND_WRENCH", " OpenSCAD Comprehensive Feature Reference - Primitives ...">>

SCAD_OPERATIONS == <<"\n", "GEAR", " OpenSCAD CSG Operations and Transformations ...">>

SCAD_SPECIAL_VARS == <<"\n", "CONTROL_KNOBS", " OpenSCAD Special Variables and Modifiers ...">>

SCAD_BEST_PRACTICES == <<"\n", "TROPHY", " OpenSCAD Best Practices and Common Patterns ...">>

\* the keys of SCAD_CATEGORIES, in the order of the dict literal
CategoryKeys == <<
  <<"s","y","n","t","a","x">>,
  <<"p","r","i","m","i","t","i","v","e","s">>,
  <<"o","p","e","r","a","t","i","o","n","s">>,
  <<"v","a","r","i","a","b","l","e","s">>,
  <<"b","e","s","t","p","r","a","c","t","i","c","e","s">>,
  <<"3","d">>,
  <<"2","d">>,
  <<"t","r","a","n","s","f","o","r","m","a","t","i","o","n","s">>,
  <<"b","o","o","l","e","a","n">>,
  <<"e","x","t","r","u","s","i","o","n","s">> >>

KeySet(keys) == { keys[i] : i \in DOMAIN keys }

SCAD_CATEGORIES ==
  (<<"s","y","n","t","a","x">> :> SCAD_SYNTAX_RULES)
  @@ (<<"p","r","i","m","i","t","i","v","e","s">> :> SCAD_PRIMITIVES)
  @@ (<<"o","p","e","r","a","t","i","o","n","s">> :> SCAD_OPERATIONS)
  @@ (<<"v","a","r","i","a","b","l","e","s">> :> SCAD_SPECIAL_VARS)
  @@ (<<"b","e","s","t","p","r","a","c","t","i","c","e","s">> :> SCAD_BEST_PRACTICES)
  @@ (<<"3","d">> :> <<"3D Primitives: cube(), sphere(), cylinder(), polyhedron()">>)
  @@ (<<"2","d">> :> <<"2D Primitives: circle(), square(), polygon(), text()">>)
  @@ (<<"t","r","a","n","s","f","o","r","m","a","t","i","o","n","s">> :> <<"Transformations: translate(), rotate(), scale(), mirror(), resize()">>)
  @@ (<<"b","o","o","l","e","a","n">> :> <<"Boolean Operations: union(), difference(), intersection()">>)
  @@ (<<"e","x","t","r","u","s","i","o","n","s">> :> <<"Extrusions: linear_extrude(), rotate_extrude()">>)

\* category_names of get_scad_reference
category_names ==
  (<<"s","y","n","t","a","x">> :> <<"MEMO", " Syntax and Rules">>)
  @@ (<<"p","r","i","m","i","t","i","v","e","s">> :> <<"HAMMER_AND_WRENCH", " Primitives">>)
  @@ (<<"o","p","e","r","a","t","i","o","n","s">> :> <<"GEAR", " Operations and Transformations">>)
  @@ (<<"v","a","r","i","a","b","l","e","s">> :> <<"CONTROL_KNOBS", " Special Variables and Modifiers">>)
  @@ (<<"b","e","s","t","p","r","a","c","t","i","c","e","s">> :> <<"TROPHY", " Best Practices">>)

\* the list literal of get_scad_reference's elif branch
QuickCategories == {
  <<"3","d">>,
  <<"2","d">>,
  <<"t","r","a","n","s","f","o","r","m","a","t","i","o","n","s">>,
  <<"b","o","o","l","e","a","n">>,
  <<"e","x","t","r","u","s","i","o","n","s">> }

ReferenceMenu ==
  <<"BOOKS", " Available OpenSCAD Reference Categories:\n\n">>
  \o <<"BULLET", " syntax - Language syntax and rules\n">>
  \o <<"BULLET", " primitives - 2D and 3D primitive shapes\n">>
  \o <<"BULLET", " operations - CSG operations and transformations\n">>
  \o <<"BULLET", " variables - Special variables and modifiers\n">>
  \o <<"BULLET", " bestpractices - Design patterns and optimization\n">>
  \o <<"BULLET", " 3d - Quick 3D primitive reference\n">>
  \o <<"BULLET", " 2d - Quick 2D primitive reference\n">>
  \o <<"BULLET", " transformations - Quick transformation reference\n">>
  \o <<"BULLET", " boolean - Quick boolean operations reference\n">>
  \o <<"BULLET", " extrusions - Quick extrusion operations reference\n">>

\* the keys of quick_reference, in the order of the dict literal
TopicKeys == <<
  <<"c","u","b","e">>,
  <<"s","p","h","e","r","e">>,
  <<"c","y","l","i","n","d","e","r">>,
  <<"t","r","a","n","s","l","a","t","e">>,
  <<"r","o","t","a","t","e">>,
  <<"d","i","f","f","e","r","e","n","c","e">>,
  <<"m","o","d","u","l","e">>,
  <<"e","x","t","r","u","d","e">>,
  <<"v","a","r","i","a","b","l","e","s">> >>

quick_reference ==
  (<<"c","u","b","e">> :> "cube(size, center) - Creates cube/rectangular prism\nExample: cube([10,20,5], center=true);")
  @@ (<<"s","p","h","e","r","e">> :> "sphere(r=radius) or sphere(d=diameter) - Creates sphere\nExample: sphere(r=10, $fn=50);")
  @@ (<<"c","y","l","i","n","d","e","r">> :> "cylinder(h, r|d, center) - Creates cylinder/frustum\nExample: cylinder(h=20, r1=10, r2=5, center=true);")
  @@ (<<"t","r","a","n","s","l","a","t","e">> :> "translate([x,y,z]) { ... } - Moves child object\nExample: translate([5,0,0]) cube(10);")
  @@ (<<"r","o","t","a","t","e">> :> "rotate([x,y,z]) { ... } - Rotates child object\nExample: rotate([0,0,45]) cube(10);")
  @@ (<<"d","i","f","f","e","r","e","n","c","e">> :> "difference() { base; subtract1; subtract2; } - Boolean subtraction\nExample: difference() { cube(10); cylinder(h=15, r=3); }")
  @@ (<<"m","o","d","u","l","e">> :> "module name(params) { ... } - Defines reusable component\nExample: module box(size) { cube(size); }")
  @@ (<<"e","x","t","r","u","d","e">> :> "linear_extrude(height, twist, ...) { 2d_shape; } - Extrudes 2D to 3D\nExample: linear_extrude(10) circle(5);")
  @@ (<<"v","a","r","i","a","b","l","e","s">> :> "Special variables: $fn, $fa, $fs for resolution\nModifiers: # (debug), % (background), ! (root), * (disable)")

Resp(outcome, text) == [outcome |-> outcome, text |-> text]

(***************************************************************************)
(* Reference tools                                                         *)
(***************************************************************************)
get_scad_syntax == Resp("reference", SCAD_SYNTAX_RULES)

\* mutant of normalize: the lower-casing is forgotten
normalize_no_lower(raw) == str_strip(raw)

\* raw.strip().lower()
normalize(raw) == str_lower(str_strip(raw))

get_scad_reference(category) ==
  LET cat == normalize(category)
  IN  IF cat \in DOMAIN SCAD_CATEGORIES
        THEN LET title == IF cat \in DOMAIN category_names
                            THEN category_names[cat]
                            ELSE str_upper(cat)
             IN  Resp("match", title \o <<"\n">> \o SCAD_CATEGORIES[cat])
      ELSE IF cat \in QuickCategories
        THEN Resp("match",
               <<"WRENCH", " ">> \o str_upper(cat) \o <<" Functions:", "\n">>
                 \o SCAD_CATEGORIES[cat])
      ELSE IF cat = <<>>
        THEN Resp("menu", ReferenceMenu)
      ELSE Resp("lookup_miss",
             <<"CROSS_MARK", " Category '">> \o cat
               \o <<"' not found. Available: ">>
               \o str_join(", ", CategoryKeys))

scad_quick_help(topic) ==
  IF is_blank(topic)
    THEN Resp("menu",
           <<"WRENCH", " Quick OpenSCAD Reference - Available topics:\n- ">>
             \o str_join("\n- ", TopicKeys))
  ELSE
    LET topic_lower == normalize(topic)
    IN  IF topic_lower \in DOMAIN quick_reference
          THEN Resp("match",
                 <<"WRENCH", " ">> \o str_capitalize(topic) \o <<":", "\n">>
                   \o <<quick_reference[topic_lower]>>)
          ELSE Resp("lookup_miss",
                 <<"CROSS_MARK", " Topic '">> \o topic
                   \o <<"' not found. Available: ">>
                   \o str_join(", ", TopicKeys))

(***************************************************************************)
(* Inputs of the tool calls                                                *)
(***************************************************************************)
FileA == <<"a",".","s","c","a","d">>
FileB == <<"b",".","t","x","t">>
FileNames == { <<>>, <<" ">>, FileA, FileB, <<"s","u","b">>, <<"n","o","/","x">> }

\* contents given to write_file
Contents == { <<>>, <<"x">>, <<"y">> }

\* contents given to append_to_file
Additions == { <<>>, <<" ">>, <<"x">> }

TrueVariants == { <<"t","r","u","e">>, <<"T","R","U","E">> }
Overwrites == TrueVariants \cup { <<"f","a","l","s","e">> }

Extensions == { <<>>, <<" ">>, <<"s","c","a","d">>, <<"t","x","t">> }

\* a key as given, upper-cased, capitalized, and surrounded by whitespace
Variants(k) ==
  { k, str_upper(k), str_capitalize(k),
    <<" ">> \o k \o <<" ">>, <<"\t">> \o k \o <<"\n">> }

Blanks == { <<>>, <<" ">> }

Categories ==
  UNION { Variants(k) : k \in KeySet(CategoryKeys) }
    \cup Blanks \cup { <<"b","o","g","u","s">>, <<"c","u","b","e">> }

Topics ==
  UNION { Variants(k) : k \in KeySet(TopicKeys) }
    \cup Blanks \cup { <<"b","o","g","u","s">>, <<"3","d">> }

(***************************************************************************)
(* State: the filesystem, the filesystem as it was before the last call,   *)
(* the last call and its response.                                         *)
(***************************************************************************)
Call(op, filename, content, overwrite, arg) ==
  [op |-> op, filename |-> filename, content |-> content,
   overwrite |-> overwrite, arg |-> arg]

Init ==
  /\ fs = <<>>
  /\ before = <<>>
  /\ call = Call("start", <<>>, <<>>, <<>>, <<>>)
  /\ response = Resp("none", <<>>)

Returns(c, r) ==
  /\ before' = fs
  /\ fs' = r.fs
  /\ call' = c
  /\ response' = r.resp

ListFiles ==
  \E ext \in Extensions :
    \E files \in glob(fs, glob_suffix(ext)) :
      Returns(Call("list_files", <<>>, <<>>, <<>>, ext),
              list_files(fs, ext, files))

ReadFile ==
  \E f \in FileNames :
    Returns(Call("read_file", f, <<>>, <<>>, <<>>), read_file(fs, f))

WriteFile ==
  \E f \in FileNames, c \in Contents, o \in Overwrites :
    Returns(Call("write_file", f, c, o, <<>>), write_file(fs, f, c, o))

AppendToFile ==
  \E f \in FileNames, c \in Additions :
    LET r == append_to_file(fs, f, c)
    IN  /\ \A p \in DOMAIN r.fs : Len(r.fs[p]) <= MaxLen
        /\ Returns(Call("append_to_file", f, c, <<>>, <<>>), r)

GetScadSyntax ==
  Returns(Call("get_scad_syntax", <<>>, <<>>, <<>>, <<>>),
          [fs |-> fs, resp |-> get_scad_syntax])

GetScadReference ==
  \E category \in Categories :
    Returns(Call("get_scad_reference", <<>>, <<>>, <<>>, category),
            [fs |-> fs, resp |-> get_scad_reference(category)])

ScadQuickHelp ==
  \E topic \in Topics :
    Returns(Call("scad_quick_help", <<>>, <<>>, <<>>, topic),
            [fs |-> fs, resp |-> scad_quick_help(topic)])

Next ==
  \/ ListFiles
  \/ ReadFile
  \/ WriteFile
  \/ AppendToFile
  \/ GetScadSyntax
  \/ GetScadReference
  \/ ScadQuickHelp

Spec == Init /\ [][Next]_vars

\* the four file tools alone
NextFiles ==
  \/ ListFiles
  \/ ReadFile
  \/ WriteFile
  \/ AppendToFile

SpecFiles == Init /\ [][NextFiles]_vars

\* the three reference tools alone
NextReference ==
  \/ GetScadSyntax
  \/ GetScadReference
  \/ ScadQuickHelp

SpecReference == Init /\ [][NextReference]_vars

(***************************************************************************)
(* Vocabulary of the properties                                            *)
(***************************************************************************)
Blank(s) == \A i \in 1..Len(s) : s[i] \in Whitespace

Existed(p) == p \in DOMAIN before \/ p \in Dirs

Marker == Head(response.text)

Says(word) == \E i \in 1..Len(response.text) : response.text[i] = word

OthersUntouched(f) ==
  \A p \in (DOMAIN fs \cup DOMAIN before) \ {f} :
    p \in DOMAIN fs /\ p \in DOMAIN before /\ fs[p] = before[p]

Padded(k) == <<" ">> \o k \o <<" ">>

ErrorOutcomes == { "validation", "not_found", "io_error", "lookup_miss" }

OverwriteDefault == <<"f","a","l","s","e">>

(***************************************************************************)
(* C1: append_to_file never creates a file: called with a filename that    *)
(* does not exist and non-blank content it returns the "not found" error   *)
(* and the set of existing files is unchanged.                             *)
(***************************************************************************)
C1_AppendNeverCreates ==
  ( /\ call.op = "append_to_file"
    /\ ~Blank(call.filename) /\ ~Blank(call.content)
    /\ ~Existed(call.filename) )
  => /\ response.text = <<"CROSS_MARK", " Error: File '">> \o call.filename
                          \o <<"' not found.">>
     /\ DOMAIN fs = DOMAIN before

(***************************************************************************)
(* C2: write_file on an existing target with overwrite "false" returns the *)
(* warning and leaves every file exactly as it was.                        *)
(***************************************************************************)
C2_OverwriteGuard ==
  ( /\ call.op = "write_file"
    /\ ~Blank(call.filename)
    /\ Existed(call.filename)
    /\ call.overwrite = OverwriteDefault )
  => /\ response.outcome = "warning"
     /\ Marker = "WARNING"
     /\ fs = before

C2_Witness ==
  /\ call.op = "write_file"
  /\ call.filename = FileA /\ call.overwrite = OverwriteDefault
  /\ call.content = <<"y">>
  /\ FileA \in DOMAIN before /\ before[FileA] = <<"x">>
  /\ FileB \in DOMAIN before
  /\ FileA \in DOMAIN fs /\ fs[FileA] = <<"x">>
  /\ response.outcome = "warning"

(***************************************************************************)
(* C3: whenever write_file returns the success text, the target holds      *)
(* exactly the given content and no other file changed; writing an         *)
(* existing file with any case variant of "true" succeeds.                 *)
(***************************************************************************)
C3_WriteReplaces ==
  /\ ( call.op = "write_file" /\ Marker = "CHECK_MARK" )
     => /\ call.filename \in DOMAIN fs
        /\ fs[call.filename] = call.content
        /\ OthersUntouched(call.filename)
  /\ ( /\ call.op = "write_file"
       /\ call.filename \in DOMAIN before
       /\ call.overwrite \in TrueVariants )
     => /\ Marker = "CHECK_MARK"
        /\ fs[call.filename] = call.content

C3_Witness ==
  /\ call.op = "write_file"
  /\ call.filename = FileA /\ call.overwrite = <<"T","R","U","E">>
  /\ call.content = <<"y">>
  /\ FileA \in DOMAIN before /\ before[FileA] = <<"x">>
  /\ FileB \in DOMAIN before
  /\ Marker = "CHECK_MARK"
  /\ fs[FileA] = <<"y">>

(***************************************************************************)
(* C4: the success text of write_file says "created" when the target did   *)
(* not exist before the call and "overwritten" when an existing file was   *)
(* replaced.                                                               *)
(***************************************************************************)
C4_ActionReported ==
  ( call.op = "write_file" /\ response.outcome = "success" )
  => IF Existed(call.filename)
       THEN Says("overwritten") /\ ~Says("created")
       ELSE Says("created") /\ ~Says("overwritten")

(***************************************************************************)
(* C5: read_file, write_file and append_to_file with a blank filename, and *)
(* append_to_file with blank content, return the validation error and      *)
(* leave the filesystem unchanged.                                         *)
(***************************************************************************)
C5_ValidationFirst ==
  ( \/ /\ call.op \in {"read_file", "write_file", "append_to_file"}
       /\ Blank(call.filename)
    \/ /\ call.op = "append_to_file"
       /\ Blank(call.content) )
  => /\ response.outcome = "validation"
     /\ Marker = "CROSS_MARK"
     /\ fs = before

C5_Witness ==
  /\ call.op = "write_file"
  /\ call.filename = <<" ">>
  /\ call.overwrite \in TrueVariants
  /\ FileA \in DOMAIN before
  /\ response.outcome = "validation"

(***************************************************************************)
(* C6 as stated: every response of every tool begins with the success, the *)
(* warning or the error marker, and the marker matches the outcome.        *)
(***************************************************************************)
C6_ThreeMarkers ==
  call.op # "start"
  => /\ Marker \in {"CHECK_MARK", "WARNING", "CROSS_MARK"}
     /\ (Marker = "CROSS_MARK") <=> (response.outcome \in ErrorOutcomes)
     /\ (Marker = "WARNING") <=> (response.outcome = "warning")

(***************************************************************************)
(* C6 amended: every failure response (validation error, not found, other  *)
(* I/O failure, lookup miss) and no other begins with the error marker;    *)
(* the overwrite warning and no other begins with the warning marker; the  *)
(* success responses of write_file and append_to_file, and no others,      *)
(* begin with the success marker.  The remaining responses (list_files,    *)
(* a successful read_file, get_scad_syntax, matches and menus) begin with  *)
(* none of the three.                                                      *)
(***************************************************************************)
C6_FailureMarkers ==
  call.op # "start"
  => /\ (Marker = "CROSS_MARK") <=> (response.outcome \in ErrorOutcomes)
     /\ (Marker = "WARNING") <=> (response.outcome = "warning")
     /\ (Marker = "CHECK_MARK")
          <=> ( /\ response.outcome = "success"
                /\ call.op \in {"write_file", "append_to_file"} )

C6_Witness ==
  /\ call.op = "append_to_file"
  /\ call.filename = <<"n","o","/","x">>
  /\ response.outcome = "not_found"
  /\ Marker = "CROSS_MARK"

(***************************************************************************)
(* C7: for every category key k, get_scad_reference called with k, with k  *)
(* upper-cased and with k surrounded by spaces returns the same text, the  *)
(* match response for k, ending with the body stored for k.                *)
(***************************************************************************)
C7_ReferenceInsensitive ==
  \A k \in KeySet(CategoryKeys) :
    ( /\ call.op = "get_scad_reference"
      /\ call.arg \in {k, str_upper(k), Padded(k)} )
    => /\ response = get_scad_reference(k)
       /\ response.outcome = "match"
       /\ Len(response.text) > Len(SCAD_CATEGORIES[k])
       /\ SubSeq(response.text,
                 Len(response.text) - Len(SCAD_CATEGORIES[k]) + 1,
                 Len(response.text)) = SCAD_CATEGORIES[k]

C7_Witness ==
  /\ call.op = "get_scad_reference"
  /\ call.arg = <<" ","p","r","i","m","i","t","i","v","e","s"," ">>
  /\ response.outcome = "match"
  /\ response.text = <<"HAMMER_AND_WRENCH", " Primitives", "\n">>
                       \o SCAD_PRIMITIVES

(***************************************************************************)
(* C8: read_file never changes the filesystem, and two consecutive         *)
(* read_file calls on the same filename return identical text.             *)
(***************************************************************************)
C8_ReadFileFrame ==
  [][ call'.op = "read_file"
      => /\ fs' = fs
         /\ ( call.op = "read_file" /\ call.filename = call'.filename )
            => response'.text = response.text ]_vars

C8_Witness ==
  /\ call.op = "read_file"
  /\ call.filename = FileA
  /\ FileA \in DOMAIN before /\ before[FileA] = <<"x">>
  /\ response.outcome = "success"
  /\ Says("x")
  /\ fs = before

(***************************************************************************)
(* C9: get_scad_reference answers a quick-tier key with the quick-tier     *)
(* header followed by its body, and a detailed-tier key with its display   *)
(* title followed by its body.                                             *)
(***************************************************************************)
C9_TierFormat ==
  \A k \in KeySet(CategoryKeys) :
    ( call.op = "get_scad_reference" /\ call.arg = k )
    => response.text =
         IF k \in QuickCategories
           THEN <<"WRENCH", " ">> \o str_upper(k) \o <<" Functions:", "\n">>
                  \o SCAD_CATEGORIES[k]
           ELSE category_names[k] \o <<"\n">> \o SCAD_CATEGORIES[k]

(***************************************************************************)
(* C10: for every topic key k, scad_quick_help called with k, with k       *)
(* upper-cased and with k surrounded by spaces returns the same text: the  *)
(* capitalized topic label followed by the snippet of k.                   *)
(***************************************************************************)
C10_QuickHelpInsensitive ==
  \A k \in KeySet(TopicKeys) :
    ( /\ call.op = "scad_quick_help"
      /\ call.arg \in {k, str_upper(k), Padded(k)} )
    => response.text = <<"WRENCH", " ">> \o str_capitalize(k)
                         \o <<":", "\n", quick_reference[k]>>

====
